---- MODULE Spec2Model ----
(***************************************************************************)
(* Model of the solar dashboard (app/utils.py, app/main.py).               *)
(*                                                                         *)
(* Strings are sequences of one-character strings, so that re.match,       *)
(* str.strip, str.capitalize, Path.suffix and f-string formatting are      *)
(* computed character by character.  A DataFrame is a record               *)
(*   [cols |-> sequence of column names, rows |-> sequence of rows],       *)
(* a row being a sequence of cells aligned with cols, and a cell one of    *)
(* Num(i), Str(s) or NaN (a missing value).                                *)
(***************************************************************************)
EXTENDS Integers, Sequences, FiniteSets, TLC

VARIABLES pc, data_dir, uploaded_file, generate, gen_countries_txt,
          gen_regions_per_country, gen_rows, selected_countries, df, source, shown,
          variable, group_col, top_n, agg, top_table, path, label

vars == <<pc, data_dir, uploaded_file, generate, gen_countries_txt,
          gen_regions_per_country, gen_rows, selected_countries, df, source, shown,
          variable, group_col, top_n, agg, top_table, path, label>>

(***************************************************************************)
(* Characters                                                              *)
(***************************************************************************)
LOWER == <<"a","b","c","d","e","f","g","h","i","j","k","l","m",
           "n","o","p","q","r","s","t","u","v","w","x","y","z">>

UPPER == <<"A","B","C","D","E","F","G","H","I","J","K","L","M",
           "N","O","P","Q","R","S","T","U","V","W","X","Y","Z">>

DIGITS == <<"0","1","2","3","4","5","6","7","8","9">>

\* the characters the model uses, in code-point order
ASCII == <<"\t", " ", "-", ".">> \o DIGITS \o UPPER \o <<"_">> \o LOWER

Ord(c) == CHOOSE i \in 1..Len(ASCII) : ASCII[i] = c

WHITESPACE == {"\t", " "}

IsLower(c) == \E i \in 1..26 : LOWER[i] = c

IsUpper(c) == \E i \in 1..26 : UPPER[i] = c

\* the character class [A-Za-z] of the regular expression
IsAlpha(c) == IsLower(c) \/ IsUpper(c)

ToUpper(c) == IF IsLower(c) THEN UPPER[CHOOSE i \in 1..26 : LOWER[i] = c] ELSE c

ToLower(c) == IF IsUpper(c) THEN LOWER[CHOOSE i \in 1..26 : UPPER[i] = c] ELSE c

\* s[a..b], empty when a > b
Slice(s, a, b) == [i \in 1..(IF b >= a THEN b - a + 1 ELSE 0) |-> s[a + i - 1]]

\* str.capitalize(): first character upper-cased, all the others lower-cased
capitalize(s) == [i \in 1..Len(s) |-> IF i = 1 THEN ToUpper(s[i]) ELSE ToLower(s[i])]

\* str.lower()
lower(s) == [i \in 1..Len(s) |-> ToLower(s[i])]

RECURSIVE lstrip(_)
lstrip(s) == IF s # <<>> /\ Head(s) \in WHITESPACE THEN lstrip(Tail(s)) ELSE s

RECURSIVE rstrip(_)
rstrip(s) == IF s # <<>> /\ s[Len(s)] \in WHITESPACE
             THEN rstrip(Slice(s, 1, Len(s) - 1)) ELSE s

\* str.strip()
strip(s) == rstrip(lstrip(s))

\* lexicographic order of strings by code point
RECURSIVE StrLess(_, _)
StrLess(a, b) ==
    IF b = <<>> THEN FALSE
    ELSE IF a = <<>> THEN TRUE
    ELSE IF Head(a) = Head(b) THEN StrLess(Tail(a), Tail(b))
    ELSE Ord(Head(a)) < Ord(Head(b))

\* str(n) for n >= 0, as used by the f-strings
RECURSIVE IntToStr(_)
IntToStr(n) == IF n < 10 THEN <<DIGITS[n + 1]>>
               ELSE IntToStr(n \div 10) \o <<DIGITS[(n % 10) + 1]>>

(***************************************************************************)
(* utils.extract_country_from_filename                                     *)
(***************************************************************************)
\* length of the greedy match of [A-Za-z]+ anchored at the start (0: no match)
RECURSIVE AlphaRun(_)
AlphaRun(name) == IF name # <<>> /\ IsAlpha(Head(name))
                  THEN 1 + AlphaRun(Tail(name)) ELSE 0

extract_country_from_filename_first_only(name) ==
    LET m == AlphaRun(name)
    IN  IF m > 0 THEN [i \in 1..m |-> IF i = 1 THEN ToUpper(name[i]) ELSE name[i]]
        ELSE name

extract_country_from_filename(name) ==
    LET m == AlphaRun(name)
    IN  IF m > 0 THEN capitalize(Slice(name, 1, m)) ELSE name

(***************************************************************************)
(* DataFrames                                                              *)
(***************************************************************************)
Num(i) == [k |-> "num", n |-> i, s |-> <<>>]

Str(x) == [k |-> "str", n |-> 0, s |-> x]

NaN == [k |-> "nan", n |-> 0, s |-> <<>>]

\* pd.DataFrame()
EmptyDF == [cols |-> <<>>, rows |-> <<>>]

\* DataFrame.empty: no columns or no rows
IsEmpty(t) == Len(t.cols) = 0 \/ Len(t.rows) = 0

HasColumn(t, c) == \E i \in 1..Len(t.cols) : t.cols[i] = c

ColIndex(t, c) == CHOOSE i \in 1..Len(t.cols) : t.cols[i] = c

\* the cell of row r of t under column c, NaN when t has no such column
Cell(t, r, c) == IF HasColumn(t, c) THEN t.rows[r][ColIndex(t, c)] ELSE NaN

\* df[c] = v with a scalar v, when a column c exists it is left untouched
SetColumnIfAbsent(t, c, v) ==
    IF HasColumn(t, c) THEN t
    ELSE [cols |-> Append(t.cols, c),
          rows |-> [r \in 1..Len(t.rows) |-> Append(t.rows[r], v)]]

\* df[c] = v with a scalar v: every cell of column c becomes v, the column
\* keeps its position; a new column is appended on the right
SetColumn(t, c, v) ==
    IF HasColumn(t, c)
    THEN [cols |-> t.cols,
          rows |-> [r \in 1..Len(t.rows) |->
                      [i \in 1..Len(t.cols) |->
                          IF t.cols[i] = c THEN v ELSE t.rows[r][i]]]]
    ELSE [cols |-> Append(t.cols, c),
          rows |-> [r \in 1..Len(t.rows) |-> Append(t.rows[r], v)]]

\* df.rename(columns=lambda x: x.strip())
RenameStrip(t) == [cols |-> [i \in 1..Len(t.cols) |-> strip(t.cols[i])],
                   rows |-> t.rows]

\* the column names of the frames in order of first appearance
RECURSIVE UnionCols(_, _)
UnionCols(dfs, acc) ==
    IF dfs = <<>> THEN acc
    ELSE LET new == SelectSeq(Head(dfs).cols,
                              LAMBDA c : \A i \in 1..Len(acc) : acc[i] # c)
         IN  UnionCols(Tail(dfs), acc \o new)

Reindex(t, cols) ==
    [r \in 1..Len(t.rows) |-> [i \in 1..Len(cols) |-> Cell(t, r, cols[i])]]

RECURSIVE ConcatRows(_, _)
ConcatRows(dfs, cols) ==
    IF dfs = <<>> THEN <<>>
    ELSE Reindex(Head(dfs), cols) \o ConcatRows(Tail(dfs), cols)

\* pd.concat(dfs, ignore_index=True): outer join of the columns, rows in
\* the order of the frames, missing cells NaN
concat(dfs) == LET cols == UnionCols(dfs, <<>>)
               IN  [cols |-> cols, rows |-> ConcatRows(dfs, cols)]

COUNTRY == <<"c","o","u","n","t","r","y">>

SOURCE_FILE == <<"_","_","s","o","u","r","c","e","_","f","i","l","e">>

REGION == <<"r","e","g","i","o","n">>

SITE == <<"s","i","t","e">>

(***************************************************************************)
(* utils.py: the file catalog and the loaders                              *)
(* A directory entry is [name, parses, content]: pd.read_csv raises on it  *)
(* when parses is FALSE and returns content otherwise.  The directory is   *)
(* [exists, entries], entries in iterdir order.                            *)
(***************************************************************************)
\* Path.suffix: from the last dot on, unless that dot is first or last
suffix(name) ==
    LET dots == {i \in 1..Len(name) : name[i] = "."}
    IN  IF dots = {} THEN <<>>
        ELSE LET i == CHOOSE d \in dots : \A e \in dots : e <= d
             IN  IF 1 < i /\ i < Len(name) THEN Slice(name, i, Len(name))
                 ELSE <<>>

CSV_SUFFIX == <<".","c","s","v">>

list_data_files(dir) ==
    IF ~dir.exists THEN <<>>
    ELSE SelectSeq(dir.entries, LAMBDA p : lower(suffix(p.name)) = CSV_SUFFIX)

\* country -> files of that country, each list in discovery order
get_files_by_country(dir) ==
    LET files == list_data_files(dir)
        keys  == {extract_country_from_filename(files[i].name) :
                      i \in 1..Len(files)}
    IN  [c \in keys |->
            SelectSeq(files,
                      LAMBDA f : extract_country_from_filename(f.name) = c)]

load_csv_file(p) ==
    IF ~p.parses THEN EmptyDF
    ELSE SetColumn(SetColumn(RenameStrip(p.content),
                             SOURCE_FILE, Str(p.name)),
                   COUNTRY, Str(extract_country_from_filename(p.name)))

\* files_by_country.get(c, []) for each c in countries, in order
RECURSIVE RequestedPaths(_, _)
RequestedPaths(countries, files_by_country) ==
    IF countries = <<>> THEN <<>>
    ELSE (IF Head(countries) \in DOMAIN files_by_country
          THEN files_by_country[Head(countries)] ELSE <<>>)
         \o RequestedPaths(Tail(countries), files_by_country)

\* a loop that stops at the first file that does not parse
RECURSIVE LoadedFramesStopOnFailure(_)
LoadedFramesStopOnFailure(paths) ==
    IF paths = <<>> \/ ~Head(paths).parses THEN <<>>
    ELSE LET d == load_csv_file(Head(paths))
         IN  (IF ~IsEmpty(d) THEN <<d>> ELSE <<>>)
             \o LoadedFramesStopOnFailure(Tail(paths))

\* the list dfs built by the two nested loops
RECURSIVE LoadedFrames(_)
LoadedFrames(paths) ==
    IF paths = <<>> THEN <<>>
    ELSE LET d == load_csv_file(Head(paths))
         IN  (IF ~IsEmpty(d) THEN <<d>> ELSE <<>>) \o LoadedFrames(Tail(paths))

load_data_for_countries(countries, dir) ==
    LET dfs == LoadedFrames(RequestedPaths(countries, get_files_by_country(dir)))
    IN  IF dfs = <<>> THEN EmptyDF ELSE concat(dfs)

\* df.select_dtypes(include=["number"]): a column read or concatenated
\* with no text cell has a numeric dtype
IsNumericColumn(t, i) == \A r \in 1..Len(t.rows) : t.rows[r][i].k # "str"

infer_numeric_columns(t) ==
    IF IsEmpty(t) THEN <<>>
    ELSE LET idx == SelectSeq([i \in 1..Len(t.cols) |-> i],
                              LAMBDA i : IsNumericColumn(t, i))
         IN  [j \in 1..Len(idx) |-> t.cols[idx[j]]]

(***************************************************************************)
(* Values of the variables an entry point does not use                     *)
(***************************************************************************)
NoDir == [exists |-> FALSE, entries |-> <<>>]

NoFile == [name |-> <<>>, parses |-> FALSE, content |-> EmptyDF]

NoUpload == [supplied |-> FALSE, parses |-> FALSE, content |-> EmptyDF]

NoAgg == [status |-> "none", rows |-> <<>>]

\* the bounds of the "Top N regions to show" slider
TOP_N_MIN == 3

TOP_N_MAX == 30

(***************************************************************************)
(* Entry point: extract_country_from_filename on one filename              *)
(***************************************************************************)
MaxNameLen == 4

NameChars == {"b", "E", "1", "-"}

BENIN_FILE == <<"b","e","n","i","n","-","m","a","l","a","n","v","i","l","l","e",
                ".","c","s","v">>

DIGIT_FILE == <<"1","2","3","d","a","t","a",".","c","s","v">>

FileNameInputs ==
    UNION {[1..n -> NameChars] : n \in 1..MaxNameLen} \cup {BENIN_FILE, DIGIT_FILE}

InitLabel ==
    /\ pc = "extract"
    /\ path \in {[NoFile EXCEPT !.name = nm] : nm \in FileNameInputs}
    /\ label = <<>>
    /\ data_dir = NoDir /\ uploaded_file = NoUpload /\ generate = FALSE
    /\ gen_countries_txt = <<>> /\ gen_regions_per_country = 1 /\ gen_rows = 1
    /\ selected_countries = <<>> /\ df = EmptyDF /\ source = "none"
    /\ shown = {} /\ variable = <<>> /\ group_col = <<>> /\ top_n = TOP_N_MIN
    /\ agg = NoAgg /\ top_table = <<>>

ExtractLabel ==
    /\ pc = "extract"
    /\ label' = extract_country_from_filename(path.name)
    /\ pc' = "extracted"
    /\ UNCHANGED <<data_dir, uploaded_file, generate, gen_countries_txt,
                   gen_regions_per_country, gen_rows, selected_countries, df, source,
                   shown, variable, group_col, top_n, agg, top_table, path>>

NextLabel == ExtractLabel

SpecLabel == InitLabel /\ [][NextLabel]_vars

\* the length of the longest prefix of path.name made of letters only
AlphaPrefixLen ==
    CHOOSE k \in 0..Len(path.name) :
        /\ \A i \in 1..k : IsAlpha(path.name[i])
        /\ k = Len(path.name) \/ ~IsAlpha(path.name[k + 1])

\* C7: the label is the longest all-letter prefix of the filename with its
\* first letter in upper case and its other letters in lower case, and the
\* whole filename when the filename does not start with a letter
LabelIsCapitalizedAlphaPrefix ==
    pc = "extracted" =>
        /\ AlphaPrefixLen = 0 => label = path.name
        /\ AlphaPrefixLen > 0 =>
              /\ Len(label) = AlphaPrefixLen
              /\ label[1] = ToUpper(path.name[1])
              /\ \A i \in 2..AlphaPrefixLen : label[i] = ToLower(path.name[i])
        /\ path.name = BENIN_FILE => label = <<"B","e","n","i","n">>
        /\ path.name = DIGIT_FILE => label = DIGIT_FILE

LabelMixedCaseWitness ==
    /\ pc = "extracted"
    /\ path.name = <<"b","E","-","b">>
    /\ label = <<"B","e">>

(***************************************************************************)
(* Entry point: the loaders on the data directory                          *)
(***************************************************************************)
MaxFiles == 2

MaxGroups == 2

F_AB1 == <<"a","b","-","1",".","c","s","v">>

F_AB2 == <<"a","B","2",".","C","S","V">>

F_ONE == <<"1",".","c","s","v">>

F_TXT == <<"a","b",".","t","x","t">>

GHI == <<"G","H","I">>

\* a file with its own country column (padded header) and a number column
T_COUNTRY == [cols |-> <<<<" ">> \o COUNTRY \o <<" ">>, GHI \o <<"\t">>>>,
              rows |-> <<<<Str(<<"x">>), Num(2)>>>>]

\* a header and no row
T_HEADER == [cols |-> <<GHI>>, rows |-> <<>>]

\* a file with its own __source_file column, a region column and a number
\* column, two rows
T_REGION == [cols |-> <<SOURCE_FILE, <<" ">> \o REGION, GHI>>,
             rows |-> <<<<Str(<<"o">>), Str(<<"r">>), Num(1)>>,
                        <<NaN, Str(<<"q">>), NaN>>>>]

FileInputs ==
    {[name |-> nm, parses |-> FALSE, content |-> EmptyDF] :
        nm \in {F_AB1, F_AB2, F_ONE, F_TXT}}
    \cup
    {[name |-> nm, parses |-> TRUE, content |-> t] :
        nm \in {F_AB1, F_AB2, F_ONE, F_TXT},
        t \in {T_COUNTRY, T_HEADER, T_REGION}}

\* the listings of a directory: files with distinct names
Listings(max) ==
    {l \in UNION {[1..n -> FileInputs] : n \in 0..max} :
        \A i, j \in 1..Len(l) : i # j => l[i].name # l[j].name}

DirInputs == {[exists |-> TRUE, entries |-> l] : l \in Listings(MaxFiles)}
             \cup {NoDir}

GroupInputs == {<<"A","b">>, F_ONE, <<"Z","z">>}

InitLoad ==
    /\ pc = "load"
    /\ data_dir \in DirInputs
    /\ selected_countries \in UNION {[1..n -> GroupInputs] : n \in 0..MaxGroups}
    /\ path = NoFile /\ label = <<>>
    /\ uploaded_file = NoUpload /\ generate = FALSE
    /\ gen_countries_txt = <<>> /\ gen_regions_per_country = 1 /\ gen_rows = 1
    /\ df = EmptyDF /\ source = "none"
    /\ shown = {} /\ variable = <<>> /\ group_col = <<>> /\ top_n = TOP_N_MIN
    /\ agg = NoAgg /\ top_table = <<>>

LoadCsvFile ==
    /\ pc = "load"
    /\ \E i \in 1..Len(data_dir.entries) :
          /\ path' = data_dir.entries[i]
          /\ df' = load_csv_file(data_dir.entries[i])
    /\ pc' = "file_loaded"
    /\ UNCHANGED <<data_dir, uploaded_file, generate, gen_countries_txt,
                   gen_regions_per_country, gen_rows, selected_countries, source,
                   shown, variable, group_col, top_n, agg, top_table, label>>

LoadDataForCountries ==
    /\ pc = "load"
    /\ df' = load_data_for_countries(selected_countries, data_dir)
    /\ pc' = "countries_loaded"
    /\ UNCHANGED <<data_dir, uploaded_file, generate, gen_countries_txt,
                   gen_regions_per_country, gen_rows, selected_countries, source,
                   shown, variable, group_col, top_n, agg, top_table, path,
                   label>>

NextLoad == LoadCsvFile \/ LoadDataForCountries

SpecLoad == InitLoad /\ [][NextLoad]_vars

\* t is s without its leading and trailing whitespace
IsTrimOf(t, s) ==
    \E a, b \in 0..Len(s) :
        /\ a + b <= Len(s)
        /\ t = Slice(s, a + 1, Len(s) - b)
        /\ \A i \in 1..a : s[i] \in WHITESPACE
        /\ \A i \in (Len(s) - b + 1)..Len(s) : s[i] \in WHITESPACE
        /\ t # <<>> => t[1] \notin WHITESPACE /\ t[Len(t)] \notin WHITESPACE
        /\ t = <<>> => a + b = Len(s)

\* C2: a file that parses yields a table with the rows of the file, in
\* which every cell of country is the label of the filename and every cell
\* of __source_file is the filename, also when the file had such a column;
\* every other column keeps its cells and has its header trimmed
LoadedFileIsTagged ==
    (pc = "file_loaded" /\ path.parses) =>
        LET raw == path.content
        IN  /\ HasColumn(df, COUNTRY) /\ HasColumn(df, SOURCE_FILE)
            /\ Len(df.rows) = Len(raw.rows)
            /\ Len(df.cols) >= Len(raw.cols)
            /\ \A r \in 1..Len(df.rows) : \A i \in 1..Len(df.cols) :
                  /\ Len(df.rows[r]) = Len(df.cols)
                  /\ df.cols[i] = COUNTRY =>
                        df.rows[r][i] = Str(extract_country_from_filename(path.name))
                  /\ df.cols[i] = SOURCE_FILE => df.rows[r][i] = Str(path.name)
            /\ \A i \in 1..Len(df.cols) :
                  IF i <= Len(raw.cols)
                  THEN /\ IsTrimOf(df.cols[i], raw.cols[i])
                       /\ df.cols[i] \notin {COUNTRY, SOURCE_FILE} =>
                             \A r \in 1..Len(df.rows) :
                                 df.rows[r][i] = raw.rows[r][i]
                  ELSE df.cols[i] \in {COUNTRY, SOURCE_FILE}

LoadedFileOverwritesCountryWitness ==
    /\ pc = "file_loaded"
    /\ path.parses
    /\ path.content = T_COUNTRY
    /\ path.name = F_AB2
    /\ df.rows = <<<<Str(<<"A","b">>), Num(2), Str(F_AB2)>>>>

\* the (position in countries, position in the directory) pairs of the
\* requested files whose table is not empty
CsvEntries ==
    IF data_dir.exists
    THEN {j \in 1..Len(data_dir.entries) :
             lower(suffix(data_dir.entries[j].name)) = CSV_SUFFIX}
    ELSE {}

Contributions ==
    {p \in (1..Len(selected_countries)) \X CsvEntries :
        /\ extract_country_from_filename(data_dir.entries[p[2]].name)
               = selected_countries[p[1]]
        /\ ~IsEmpty(load_csv_file(data_dir.entries[p[2]]))}

TableOf(p) == load_csv_file(data_dir.entries[p[2]])

ComesBefore(q, p) == q[1] < p[1] \/ (q[1] = p[1] /\ q[2] < p[2])

RECURSIVE RowsIn(_)
RowsIn(ps) == IF ps = {} THEN 0
              ELSE LET p == CHOOSE x \in ps : TRUE
                   IN  Len(TableOf(p).rows) + RowsIn(ps \ {p})

\* C3: the result holds, for each requested group in input order and each
\* of its files in discovery order, the rows of the non-empty table the
\* file loads to, under the union of the columns; files that fail to parse
\* or load to an empty table add nothing; with no contribution the result
\* is the empty table
CountriesLoadedIsConcatenation ==
    pc = "countries_loaded" =>
        IF Contributions = {} THEN df = EmptyDF
        ELSE /\ Len(df.rows) = RowsIn(Contributions)
             /\ \A i, j \in 1..Len(df.cols) : i # j => df.cols[i] # df.cols[j]
             /\ {df.cols[i] : i \in 1..Len(df.cols)}
                   = UNION {{TableOf(p).cols[i] : i \in 1..Len(TableOf(p).cols)} :
                               p \in Contributions}
             /\ \A p \in Contributions :
                   LET off == RowsIn({q \in Contributions : ComesBefore(q, p)})
                   IN  \A r \in 1..Len(TableOf(p).rows) :
                           \A i \in 1..Len(df.cols) :
                               df.rows[off + r][i]
                                   = Cell(TableOf(p), r, df.cols[i])

\* a requested group whose first file fails to parse and whose second
\* file still contributes its rows
CountriesLoadedSkipsFailureWitness ==
    /\ pc = "countries_loaded"
    /\ Len(data_dir.entries) = 2
    /\ ~data_dir.entries[1].parses
    /\ data_dir.entries[1].name = F_AB1
    /\ data_dir.entries[2].name = F_AB2
    /\ data_dir.entries[2].content = T_REGION
    /\ data_dir.entries[2].parses
    /\ selected_countries = <<<<"A","b">>>>
    /\ Len(df.rows) = 2

(***************************************************************************)
(* main.py: inspection of the assembled dataset and the ranking table      *)
(* The plot (lines 115-121) and the raw view and download (lines 138-145)  *)
(* change none of the variables below and are not part of the state.       *)
(***************************************************************************)
\* lines 108-113
ChooseGroupCol(t) ==
    IF HasColumn(t, REGION) THEN REGION
    ELSE IF HasColumn(t, SITE) THEN SITE
    ELSE COUNTRY

\* order of the group keys: numbers by value, text by code point
CellLess(a, b) ==
    IF a.k = "num" /\ b.k = "num" THEN a.n < b.n
    ELSE IF a.k = "str" /\ b.k = "str" THEN StrLess(a.s, b.s)
    ELSE a.k = "num" /\ b.k = "str"

KeyLess(a, b) == CellLess(a[1], b[1]) \/ (a[1] = b[1] /\ CellLess(a[2], b[2]))

RECURSIVE SortKeys(_)
SortKeys(keys) ==
    IF keys = {} THEN <<>>
    ELSE LET m == CHOOSE x \in keys : \A y \in keys : ~KeyLess(y, x)
         IN  <<m>> \o SortKeys(keys \ {m})

RECURSIVE SumCells(_, _, _)
SumCells(t, rs, v) ==
    IF rs = {} THEN 0
    ELSE LET r == CHOOSE x \in rs : TRUE
         IN  Cell(t, r, v).n + SumCells(t, rs \ {r}, v)

\* the rows of a group (size), whatever their value of the variable
PresentRowsAll(t, members, v) == members

\* the rows of a group that mean and count take: those with a value
PresentRows(t, members, v) == {r \in members : Cell(t, r, v).k = "num"}

\* reset_index() inserts each index level as a column and raises when a
\* column of that name is already there
ResetIndexRaises(levels) ==
    \E i, j \in 1..Len(levels) : i < j /\ levels[i] = levels[j]

\* df.groupby([g, "country"])[v].agg(["mean", "count"]).reset_index():
\* rows with a missing key are dropped, groups come in key order, the mean
\* is kept as the pair (sum, count) and is missing when count = 0
Aggregate(t, g, v) ==
    IF ~HasColumn(t, g) \/ ~HasColumn(t, COUNTRY) \/ ~HasColumn(t, v)
       \/ ResetIndexRaises(<<g, COUNTRY>>)
    THEN [status |-> "error", rows |-> <<>>]
    ELSE LET keyed == {r \in 1..Len(t.rows) :
                          Cell(t, r, g).k # "nan" /\ Cell(t, r, COUNTRY).k # "nan"}
             KeyOf(r) == <<Cell(t, r, g), Cell(t, r, COUNTRY)>>
             keys  == SortKeys({KeyOf(r) : r \in keyed})
             Group(key) ==
                 LET present == PresentRows(t, {r \in keyed : KeyOf(r) = key}, v)
                 IN  [dim |-> key[1], country |-> key[2],
                      sum |-> SumCells(t, present, v),
                      count |-> Cardinality(present)]
         IN  [status |-> "table",
              rows |-> [i \in 1..Len(keys) |-> Group(keys[i])]]

\* mean(a) >= mean(b), a row without a mean being below every other
MeanAtMost(a, b) ==
    \/ a.count = 0
    \/ b.count > 0 /\ a.sum * b.count <= b.sum * a.count

MeansAscending(rows) ==
    \A i, j \in 1..Len(rows) : i < j => MeanAtMost(rows[i], rows[j])

\* sort_values(mean, ascending=False): means in descending order, the
\* rows without a mean last
MeansDescending(rows) ==
    \A i, j \in 1..Len(rows) : i < j => MeanAtMost(rows[j], rows[i])

\* the orders sort_values may return: the default sort is not stable, so
\* rows of equal mean may come in any order
SortValues(rows) ==
    {[i \in 1..Len(rows) |-> rows[f[i]]] :
        f \in {g \in [1..Len(rows) -> 1..Len(rows)] :
                  /\ \A i, j \in 1..Len(rows) : i # j => g[i] # g[j]
                  /\ MeansDescending([i \in 1..Len(rows) |-> rows[g[i]]])}}

\* DataFrame.head(n)
head(rows, n) == Slice(rows, 1, IF n < Len(rows) THEN n ELSE Len(rows))

TopNInputs == {TOP_N_MIN, TOP_N_MIN + 1, TOP_N_MAX}

\* lines 94-113: the empty check, the numeric columns, the variable chosen
\* in the select box and the grouping column
Inspect ==
    /\ pc = "inspect"
    /\ IF IsEmpty(df)
       THEN /\ shown' = shown \cup {"info_no_data"}
            /\ pc' = "done"
            /\ UNCHANGED <<variable, group_col>>
       ELSE IF infer_numeric_columns(df) = <<>>
       THEN /\ shown' = shown \cup {"error_no_numeric"}
            /\ pc' = "done"
            /\ UNCHANGED <<variable, group_col>>
       ELSE /\ \E i \in 1..Len(infer_numeric_columns(df)) :
                  variable' = infer_numeric_columns(df)[i]
            /\ group_col' = ChooseGroupCol(df)
            /\ pc' = "aggregate"
            /\ UNCHANGED shown
    /\ UNCHANGED <<data_dir, uploaded_file, generate, gen_countries_txt,
                   gen_regions_per_country, gen_rows, selected_countries, df, source,
                   top_n, agg, top_table, path, label>>

\* lines 125-131 and the except clause of lines 135-136
AggregateTop ==
    /\ pc = "aggregate"
    /\ agg' = Aggregate(df, group_col, variable)
    /\ IF agg'.status = "error"
       THEN shown' = shown \cup {"error_top_regions"} /\ pc' = "done"
       ELSE UNCHANGED shown /\ pc' = "rank"
    /\ UNCHANGED <<data_dir, uploaded_file, generate, gen_countries_txt,
                   gen_regions_per_country, gen_rows, selected_countries, df, source,
                   variable, group_col, top_n, top_table, path, label>>

\* lines 132-134
RankTop ==
    /\ pc = "rank"
    /\ top_n' \in TopNInputs
    /\ \E sorted \in SortValues(agg.rows) : top_table' = head(sorted, top_n')
    /\ shown' = shown \cup {"top_table"}
    /\ pc' = "done"
    /\ UNCHANGED <<data_dir, uploaded_file, generate, gen_countries_txt,
                   gen_regions_per_country, gen_rows, selected_countries, df, source,
                   variable, group_col, agg, path, label>>

(***************************************************************************)
(* Entry point: the ranking on a given dataset                             *)
(***************************************************************************)
MaxRows == 4

R1 == Str(<<"R","1">>)

R2 == Str(<<"R","2">>)

CA == Str(<<"A">>)

CB == Str(<<"B">>)

RowInputs == {<<R1, CA, Num(1)>>, <<R1, CA, Num(3)>>, <<R2, CA, Num(2)>>,
              <<R1, CB, Num(2)>>, <<R2, CB, Num(2)>>, <<R2, CB, NaN>>,
              <<NaN, CA, Num(1)>>}

\* values 10, 20, 30 for X and the value 100 for Y
XY_TABLE == [cols |-> <<REGION, COUNTRY, GHI>>,
             rows |-> <<<<R1, Str(<<"X">>), Num(10)>>,
                        <<R1, Str(<<"X">>), Num(20)>>,
                        <<R1, Str(<<"X">>), Num(30)>>,
                        <<R1, Str(<<"Y">>), Num(100)>>>>]

\* a dataset whose only candidate dimension is country
COUNTRY_TABLE == [cols |-> <<COUNTRY, GHI>>,
                  rows |-> <<<<CA, Num(1)>>, <<CB, Num(2)>>>>]

TopTableInputs ==
    {[cols |-> <<d, COUNTRY, GHI>>, rows |-> rs] :
        d \in {REGION},
        rs \in UNION {[1..n -> RowInputs] : n \in 0..MaxRows}}
    \cup {[cols |-> <<SITE, COUNTRY, GHI>>, rows |-> <<<<R1, CA, Num(1)>>>>],
          XY_TABLE, COUNTRY_TABLE}

InitTop ==
    /\ pc = "inspect"
    /\ df \in TopTableInputs
    /\ source = "none"
    /\ variable = <<>> /\ group_col = <<>> /\ top_n = TOP_N_MIN
    /\ agg = NoAgg /\ top_table = <<>> /\ shown = {}
    /\ data_dir = NoDir /\ uploaded_file = NoUpload /\ generate = FALSE
    /\ gen_countries_txt = <<>> /\ gen_regions_per_country = 1 /\ gen_rows = 1
    /\ selected_countries = <<>> /\ path = NoFile /\ label = <<>>

NextTop == Inspect \/ AggregateTop \/ RankTop

SpecTop == InitTop /\ [][NextTop]_vars

\* the mean of a is not above the mean of b; a missing mean is above none
NotAbove(a, b) == a.count = 0 \/ (b.count > 0 /\ a.sum * b.count <= b.sum * a.count)

SameMean(a, b) == NotAbove(a, b) /\ NotAbove(b, a)

\* the first row of df that carries the (dimension value, label) pair of x
FirstSeen(x) ==
    CHOOSE r \in 1..Len(df.rows) :
        /\ Cell(df, r, group_col) = x.dim /\ Cell(df, r, COUNTRY) = x.country
        /\ \A q \in 1..(r - 1) :
              ~(Cell(df, q, group_col) = x.dim /\ Cell(df, q, COUNTRY) = x.country)

RankingShown == pc = "done" /\ "top_table" \in shown

RankingLength ==
    Len(top_table) = IF top_n < Len(agg.rows) THEN top_n ELSE Len(agg.rows)

RankingRowsAreAggregationRows ==
    /\ \A i \in 1..Len(top_table) : \E j \in 1..Len(agg.rows) : top_table[i] = agg.rows[j]
    /\ \A i, j \in 1..Len(top_table) : i # j => top_table[i] # top_table[j]

LeftOut == {agg.rows[j] : j \in 1..Len(agg.rows)}
           \ {top_table[i] : i \in 1..Len(top_table)}

\* C4 as stated: descending means, pairs of equal mean in the order in which
\* the rows of the table first show them, and the first n of that order
RankingTiesInFirstEncounterOrder ==
    RankingShown =>
        /\ top_n \in TOP_N_MIN..TOP_N_MAX
        /\ RankingLength
        /\ RankingRowsAreAggregationRows
        /\ \A i, j \in 1..Len(top_table) : i < j =>
              /\ NotAbove(top_table[j], top_table[i])
              /\ SameMean(top_table[i], top_table[j]) =>
                    FirstSeen(top_table[i]) < FirstSeen(top_table[j])
        /\ \A x \in LeftOut : \A i \in 1..Len(top_table) :
              /\ NotAbove(x, top_table[i])
              /\ SameMean(x, top_table[i]) => FirstSeen(top_table[i]) < FirstSeen(x)

\* C4 amended: the ranking holds min(n, number of pairs) distinct rows of
\* the aggregation, means descending with the pairs without a mean last,
\* and no pair left out has a mean above a pair that is kept; n is in 3..30
RankingIsTopOfDescendingMeans ==
    RankingShown =>
        /\ top_n \in TOP_N_MIN..TOP_N_MAX
        /\ RankingLength
        /\ RankingRowsAreAggregationRows
        /\ \A i \in 1..(Len(top_table) - 1) : NotAbove(top_table[i + 1], top_table[i])
        /\ \A x \in LeftOut : \A i \in 1..Len(top_table) : NotAbove(x, top_table[i])

\* four pairs, three kept, two of the kept ones with the same mean
RankingTruncatesWitness ==
    /\ RankingShown
    /\ Len(agg.rows) = 4
    /\ top_n = TOP_N_MIN
    /\ Len(top_table) = 3
    /\ SameMean(top_table[2], top_table[3])
    /\ ~SameMean(top_table[1], top_table[2])

AggregationMade == pc \in {"rank", "done"} /\ agg.status = "table"

\* the rows of df that carry the pair of row r
SamePair(r) ==
    {q \in 1..Len(df.rows) :
        /\ Cell(df, q, group_col) = Cell(df, r, group_col)
        /\ Cell(df, q, COUNTRY) = Cell(df, r, COUNTRY)}

HasPair(r) == Cell(df, r, group_col).k # "nan" /\ Cell(df, r, COUNTRY).k # "nan"

RowsOfPair(r) ==
    {i \in 1..Len(agg.rows) :
        /\ agg.rows[i].dim = Cell(df, r, group_col)
        /\ agg.rows[i].country = Cell(df, r, COUNTRY)}

RECURSIVE Total(_)
Total(rs) == IF rs = {} THEN 0
             ELSE LET r == CHOOSE x \in rs : TRUE
                  IN  Cell(df, r, variable).n + Total(rs \ {r})

XYRanking ==
    (RankingShown /\ df = XY_TABLE) =>
        top_table = <<[dim |-> R1, country |-> Str(<<"Y">>), sum |-> 100, count |-> 1],
                      [dim |-> R1, country |-> Str(<<"X">>), sum |-> 60, count |-> 3]>>

\* C5 as stated: one aggregation row per pair of the table, its count the
\* number of rows of the table with that pair, its mean their mean
AggregationCountsEveryRow ==
    /\ AggregationMade =>
          \A r \in 1..Len(df.rows) : HasPair(r) =>
              /\ Cardinality(RowsOfPair(r)) = 1
              /\ \A i \in RowsOfPair(r) :
                    /\ agg.rows[i].count = Cardinality(SamePair(r))
                    /\ agg.rows[i].sum = Total(SamePair(r))
    /\ XYRanking

\* C5 amended: whenever the aggregation is made, it has exactly one row for
\* each pair of a present dimension value and a present label of the
\* table and no other row; the count is the number of rows with that pair
\* whose value of the variable is present, the mean is the mean of those
\* values, and there is no mean when there is none
AggregationCountsPresentValues ==
    /\ AggregationMade =>
          /\ \A r \in 1..Len(df.rows) : HasPair(r) =>
                LET present == {q \in SamePair(r) : Cell(df, q, variable).k # "nan"}
                IN  /\ Cardinality(RowsOfPair(r)) = 1
                    /\ \A i \in RowsOfPair(r) :
                          /\ agg.rows[i].count = Cardinality(present)
                          /\ agg.rows[i].sum = Total(present)
          /\ \A i \in 1..Len(agg.rows) : \E r \in 1..Len(df.rows) :
                HasPair(r) /\ i \in RowsOfPair(r)
    /\ XYRanking

\* a pair with one present and one missing value of the variable, next to
\* rows without a dimension value
AggregationMissingValueWitness ==
    /\ AggregationMade
    /\ \E r \in 1..Len(df.rows) : ~HasPair(r)
    /\ \E i \in 1..Len(agg.rows) :
          /\ agg.rows[i].count = 1
          /\ \E r \in 1..Len(df.rows) :
                i \in RowsOfPair(r) /\ Cardinality(SamePair(r)) = 2

(***************************************************************************)
(* main.py: the choice of the data source, lines 50-92                     *)
(* An uploaded file is [supplied, parses, content]: pd.read_csv raises on  *)
(* it when parses is FALSE and returns content otherwise.  source records  *)
(* which statement assigned the df that is in use.                         *)
(***************************************************************************)
UPLOADED == <<"U","p","l","o","a","d","e","d">>

\* lines 53-60 with an except clause that reports nothing
read_uploaded_silent(u) ==
    IF ~u.parses
    THEN [df |-> EmptyDF, shown |-> {}, source |-> "none"]
    ELSE [df |-> IF HasColumn(u.content, COUNTRY) THEN u.content
                 ELSE SetColumn(u.content, COUNTRY, Str(UPLOADED)),
          shown |-> {"sidebar_success_upload"},
          source |-> "upload"]

\* lines 53-60 without the country column being added
read_uploaded_as_is(u) ==
    IF ~u.parses
    THEN [df |-> EmptyDF, shown |-> {"sidebar_error_upload"}, source |-> "none"]
    ELSE [df |-> u.content,
          shown |-> {"sidebar_success_upload"},
          source |-> "upload"]

\* lines 53-60: the try block and its except clause
read_uploaded(u) ==
    IF ~u.parses
    THEN [df |-> EmptyDF, shown |-> {"sidebar_error_upload"}, source |-> "none"]
    ELSE [df |-> IF HasColumn(u.content, COUNTRY) THEN u.content
                 ELSE SetColumn(u.content, COUNTRY, Str(UPLOADED)),
          shown |-> {"sidebar_success_upload"},
          source |-> "upload"]

\* lines 51-60
Upload ==
    /\ pc = "upload"
    /\ IF uploaded_file.supplied
       THEN /\ df' = read_uploaded(uploaded_file).df
            /\ shown' = shown \cup read_uploaded(uploaded_file).shown
            /\ source' = read_uploaded(uploaded_file).source
       ELSE /\ df' = EmptyDF
            /\ UNCHANGED <<shown, source>>
    /\ pc' = "generate"
    /\ UNCHANGED <<data_dir, uploaded_file, generate, gen_countries_txt,
                   gen_regions_per_country, gen_rows, selected_countries,
                   variable, group_col, top_n, agg, top_table, path, label>>

\* line 65: the text split at the commas is a sequence of pieces
ParseCountries(pieces) ==
    LET kept == SelectSeq(pieces, LAMBDA c : strip(c) # <<>>)
    IN  [i \in 1..Len(kept) |-> capitalize(strip(kept[i]))]

\* lines 65-67
GenCountries(pieces) ==
    IF ParseCountries(pieces) = <<>>
    THEN <<<<"B","e","n","i","n">>, <<"T","o","g","o">>>>
    ELSE ParseCountries(pieces)

\* rng.integers(low, high): high is exclusive
integers(low, high) == low..(high - 1)

SITE_HIGH == 1000

\* line 74
RegionLabels(regions_per_country) ==
    {<<"R","e","g","i","o","n","-">> \o IntToStr(r) :
        r \in integers(1, regions_per_country + 1)}

\* line 75
SiteLabels == {<<"S","i","t","e","-">> \o IntToStr(i) : i \in integers(1, SITE_HIGH)}

\* the values the model lets rng.normal return
NormalDraws == {-1, 2}

Abs(x) == IF x < 0 THEN -x ELSE x

TEMPERATURE == <<"t","e","m","p","e","r","a","t","u","r","e">>

\* lines 70-80: the rows one generation may draw
GeneratedRows(countries, regions_per_country) ==
    {<<Str(countries[c]), Str(reg), Str(site), Num(Abs(g)), Num(t)>> :
        c \in 1..Len(countries),
        reg \in RegionLabels(regions_per_country),
        site \in SiteLabels,
        g \in NormalDraws,
        t \in NormalDraws}

\* lines 62-88
Generate ==
    /\ pc = "generate"
    /\ IF IsEmpty(df) /\ generate
       THEN /\ \E rows \in [1..gen_rows ->
                              GeneratedRows(GenCountries(gen_countries_txt),
                                            gen_regions_per_country)] :
                  df' = [cols |-> <<COUNTRY, REGION, SITE, GHI, TEMPERATURE>>,
                         rows |-> rows]
            /\ shown' = shown \cup {"sidebar_success_generated"}
            /\ source' = "generated"
       ELSE UNCHANGED <<df, shown, source>>
    /\ pc' = "local"
    /\ UNCHANGED <<data_dir, uploaded_file, generate, gen_countries_txt,
                   gen_regions_per_country, gen_rows, selected_countries,
                   variable, group_col, top_n, agg, top_table, path, label>>

\* lines 90-92
LoadLocal ==
    /\ pc = "local"
    /\ IF IsEmpty(df) /\ selected_countries # <<>>
       THEN /\ df' = load_data_for_countries(selected_countries, data_dir)
            /\ source' = "local"
       ELSE UNCHANGED <<df, source>>
    /\ pc' = "inspect"
    /\ UNCHANGED <<data_dir, uploaded_file, generate, gen_countries_txt,
                   gen_regions_per_country, gen_rows, selected_countries,
                   shown, variable, group_col, top_n, agg, top_table, path,
                   label>>

\* sorted(files_map.keys())
RECURSIVE SortStrings(_)
SortStrings(ss) ==
    IF ss = {} THEN <<>>
    ELSE LET m == CHOOSE x \in ss : \A y \in ss : ~StrLess(y, x)
         IN  <<m>> \o SortStrings(ss \ {m})

\* the selections the multiselect of lines 44-48 offers: the options kept
\* or dropped one by one
RECURSIVE Selections(_)
Selections(options) ==
    IF options = <<>> THEN {<<>>}
    ELSE LET rest == Selections(Tail(options))
         IN  rest \cup {<<Head(options)>> \o x : x \in rest}

(***************************************************************************)
(* Entry point: one run of main()                                          *)
(***************************************************************************)
\* the number of rows the model generates for one request
GenRowsInputs == {1}

REGIONS_MIN == 1

REGIONS_MAX == 50

\* one file of country Ab with neither region nor site
DIR_PLAIN == [exists |-> TRUE,
              entries |-> <<[name |-> F_AB1, parses |-> TRUE, content |-> T_COUNTRY]>>]

\* a file that does not parse, then a file with regions
DIR_MIXED == [exists |-> TRUE,
              entries |-> <<[name |-> F_AB1, parses |-> FALSE, content |-> EmptyDF],
                            [name |-> F_AB2, parses |-> TRUE, content |-> T_REGION]>>]

MainDirInputs == {NoDir, DIR_PLAIN, DIR_MIXED}

\* an upload with a country column of its own, sites and a number column
T_SITES == [cols |-> <<COUNTRY, SITE, GHI>>,
            rows |-> <<<<Str(<<"K">>), Str(<<"s">>), Num(1)>>,
                       <<Str(<<"K">>), Str(<<"s">>), Num(3)>>>>]

\* an upload with one number column
T_PLAIN == [cols |-> <<GHI>>, rows |-> <<<<Num(5)>>>>]

UploadInputs ==
    {NoUpload, [supplied |-> TRUE, parses |-> FALSE, content |-> EmptyDF]}
    \cup {[supplied |-> TRUE, parses |-> TRUE, content |-> t] :
             t \in {T_HEADER, T_COUNTRY, T_SITES, T_PLAIN}}

\* " " (nothing but blanks) and "tO," after the split at the commas
GenTextInputs == {<<<<" ">>>>, <<<<"t","O">>, <<>>>>}

Init ==
    /\ pc = "upload"
    /\ data_dir \in MainDirInputs
    /\ selected_countries \in
           Selections(SortStrings(DOMAIN get_files_by_country(data_dir)))
    /\ uploaded_file \in UploadInputs
    /\ generate \in BOOLEAN
    /\ gen_countries_txt \in GenTextInputs
    /\ gen_regions_per_country = REGIONS_MIN
    /\ gen_rows \in GenRowsInputs
    /\ df = EmptyDF /\ source = "none" /\ shown = {}
    /\ variable = <<>> /\ group_col = <<>> /\ top_n = TOP_N_MIN
    /\ agg = NoAgg /\ top_table = <<>>
    /\ path = NoFile /\ label = <<>>

Next == Upload \/ Generate \/ LoadLocal \/ Inspect \/ AggregateTop \/ RankTop

Spec == Init /\ [][Next]_vars

(***************************************************************************)
(* Entry point: the generator alone                                        *)
(***************************************************************************)
InitGen ==
    /\ pc = "generate"
    /\ generate = TRUE
    /\ gen_countries_txt \in GenTextInputs
    /\ gen_regions_per_country \in {REGIONS_MIN, 3, REGIONS_MAX}
    /\ gen_rows \in GenRowsInputs
    /\ df = EmptyDF /\ source = "none" /\ shown = {}
    /\ data_dir = NoDir /\ selected_countries = <<>>
    /\ uploaded_file = NoUpload
    /\ variable = <<>> /\ group_col = <<>> /\ top_n = TOP_N_MIN
    /\ agg = NoAgg /\ top_table = <<>>
    /\ path = NoFile /\ label = <<>>

NextGen == Generate

SpecGen == InitGen /\ [][NextGen]_vars

SourceChosen == pc \in {"inspect", "aggregate", "rank", "done"}

\* C1 as stated: the data of a dataset that is not empty come from the
\* upload when one is supplied, from the generator only without an upload
\* and on request, from the local files only when neither applies; and the
\* dataset is empty only when no source yields anything
SourceFollowsPriority ==
    SourceChosen =>
        /\ ~IsEmpty(df) =>
              /\ uploaded_file.supplied =>
                    source = "upload" /\ df = read_uploaded(uploaded_file).df
              /\ source = "generated" => ~uploaded_file.supplied /\ generate
              /\ source = "local" =>
                    /\ ~uploaded_file.supplied /\ ~generate
                    /\ selected_countries # <<>>
        /\ IsEmpty(df) =>
              /\ ~uploaded_file.supplied \/ IsEmpty(read_uploaded(uploaded_file).df)
              /\ ~generate
              /\ \/ selected_countries = <<>>
                 \/ IsEmpty(load_data_for_countries(selected_countries, data_dir))

\* C6: once the upload step has run on a supplied file that does not parse,
\* the upload error is on the page and the upload success message is not,
\* so whatever the run renders afterwards comes with the error
UploadFailureIsReported ==
    (pc # "upload" /\ uploaded_file.supplied /\ ~uploaded_file.parses) =>
        /\ "sidebar_error_upload" \in shown
        /\ "sidebar_success_upload" \notin shown

\* a run that ranks local data after the upload failed
UploadFailureThenRankingWitness ==
    /\ pc = "done"
    /\ uploaded_file.supplied /\ ~uploaded_file.parses
    /\ source = "local"
    /\ "top_table" \in shown
    /\ "sidebar_error_upload" \in shown

ColumnNames == {df.cols[i] : i \in 1..Len(df.cols)}

\* C9: a dataset that is not empty has a country column, and the grouping
\* column chosen for it is region if it has one, else site if it has one,
\* else country, a column of the dataset in each case
NonEmptyDatasetHasCountry ==
    /\ (SourceChosen /\ ~IsEmpty(df)) => COUNTRY \in ColumnNames
    /\ (pc \in {"aggregate", "rank", "done"} /\ group_col # <<>>) =>
          /\ group_col \in ColumnNames
          /\ REGION \in ColumnNames => group_col = REGION
          /\ (REGION \notin ColumnNames /\ SITE \in ColumnNames) => group_col = SITE
          /\ (REGION \notin ColumnNames /\ SITE \notin ColumnNames) =>
                group_col = COUNTRY

\* an upload without a country column ends grouped by the added column
UploadGetsCountryWitness ==
    /\ pc = "done"
    /\ source = "upload"
    /\ uploaded_file.content = T_PLAIN
    /\ group_col = COUNTRY
    /\ \A r \in 1..Len(df.rows) : Cell(df, r, COUNTRY) = Str(UPLOADED)

\* C10 as stated: once a variable of the numeric columns is chosen for a
\* dataset that is not empty, the ranking step yields a table, no error
RankingNeverFails ==
    (pc = "done" /\ variable # <<>>) =>
        /\ agg.status = "table"
        /\ "error_top_regions" \notin shown

\* C8 as stated: every region index is in 1..regions per country, every
\* site index is in 1..1000, and each index of both ranges can be drawn
GeneratedLabelsCoverInclusiveRanges ==
    (pc = "local" /\ source = "generated") =>
        /\ \A r \in 1..Len(df.rows) :
              /\ \E i \in 1..gen_regions_per_country :
                    Cell(df, r, REGION) = Str(<<"R","e","g","i","o","n","-">> \o IntToStr(i))
              /\ \E i \in 1..1000 :
                    Cell(df, r, SITE) = Str(<<"S","i","t","e","-">> \o IntToStr(i))
        /\ \A i \in 1..gen_regions_per_country :
              (<<"R","e","g","i","o","n","-">> \o IntToStr(i))
                  \in RegionLabels(gen_regions_per_country)
        /\ \A i \in 1..1000 :
              (<<"S","i","t","e","-">> \o IntToStr(i)) \in SiteLabels

====
